---- MODULE Spec2Model ----
(***************************************************************************)
(* Model of inst/scripts/add_study_and_sample.py: the reference-table      *)
(* cache (download_sra_run_members, load_sra_run_members), the enrichment  *)
(* join (add_study_and_sample_info) and the batch loop (main).             *)
(*                                                                         *)
(* Strings are sequences of symbols.  A nullable string is either such a   *)
(* sequence or Null; a nullable integer is <<>> (null) or <<n>>.           *)
(***************************************************************************)
EXTENDS Integers, Sequences, FiniteSets

\* ------------------------------------------------------------------ bounds
MaxRows == 2
MaxRef == 2
MaxFiles == 2

\* ------------------------------------------------------------ value domain
\* The null of a polars column (what the token "-" is read as).
Null == <<"<null>">>

NullInt == <<>>

SeqsUpTo(S, n) == UNION {[1..k -> S] : k \in 0..n}

SAMN1 == <<"S", "A", "M", "N", "1">>
SAMN2 == <<"S", "A", "M", "N", "2">>
s1 == <<"s", "1">>
s2 == <<"s", "2">>

\* Rows SRA_Run_Members may hold (Member_Name, which is dropped unread, is
\* left out).
RunRows ==
    { [Run |-> <<"R1">>, Experiment |-> <<"X1">>, Sample |-> <<"S1">>,
       Study |-> <<"P1">>, BioSample |-> SAMN1, Spots |-> <<100>>,
       Bases |-> <<1000>>, Status |-> <<"live">>],
      [Run |-> <<"R2">>, Experiment |-> <<"X2">>, Sample |-> <<"S1">>,
       Study |-> <<"P1">>, BioSample |-> SAMN1, Spots |-> <<50>>,
       Bases |-> <<500>>, Status |-> <<"dead">>],
      [Run |-> <<"R2">>, Experiment |-> <<"X2">>, Sample |-> <<"S1">>,
       Study |-> <<"P1">>, BioSample |-> SAMN1, Spots |-> <<50>>,
       Bases |-> <<500>>, Status |-> <<"live">>],
      [Run |-> <<"R1">>, Experiment |-> <<"X4">>, Sample |-> <<"S4">>,
       Study |-> <<"P4">>, BioSample |-> SAMN2, Spots |-> <<7>>,
       Bases |-> <<70>>, Status |-> Null],
      [Run |-> <<"R3">>, Experiment |-> <<"X3">>, Sample |-> Null,
       Study |-> Null, BioSample |-> Null, Spots |-> NullInt,
       Bases |-> <<30>>, Status |-> <<"live">>] }

RunTables == SeqsUpTo(RunRows, MaxRef)

\* Rows of a curated table that has both a sample_id and an ncbi_accession
\* column.
AccessionRows ==
    { [sample_id |-> s1,   ncbi_accession |-> <<"R1", ";", "R2">>],
      [sample_id |-> s1,   ncbi_accession |-> <<"R3", ";", "R1">>],
      [sample_id |-> s2,   ncbi_accession |-> <<"R1", ";", "R1">>],
      [sample_id |-> s2,   ncbi_accession |-> <<"R4">>],
      [sample_id |-> s2,   ncbi_accession |-> Null],
      [sample_id |-> Null, ncbi_accession |-> <<"R1">>] }

\* Rows of a curated table with a sample_id column only.
SampleRows ==
    { [sample_id |-> x, ncbi_accession |-> Null] : x \in {SAMN1, SAMN2, s1, Null} }

CuratedTables ==
    { [cols |-> {"sample_id", "ncbi_accession"}, sidType |-> "str", rows |-> r] :
        r \in SeqsUpTo(AccessionRows, MaxRows) }
    \cup
    { [cols |-> {"sample_id"}, sidType |-> "str", rows |-> r] :
        r \in SeqsUpTo(SampleRows, MaxRows) }
    \cup
    { [cols |-> {"sample_id"}, sidType |-> "int", rows |-> r] :
        r \in SeqsUpTo({[sample_id |-> <<"7">>, ncbi_accession |-> Null]}, MaxRows) }
    \cup
    { [cols |-> {"ncbi_accession"}, sidType |-> "str", rows |-> r] :
        r \in SeqsUpTo({[sample_id |-> Null, ncbi_accession |-> <<"R1">>]}, MaxRows) }
    \cup
    { [cols |-> {}, sidType |-> "str", rows |-> r] :
        r \in SeqsUpTo({[sample_id |-> Null, ncbi_accession |-> Null]}, MaxRows) }

NoTable == [cols |-> {}, sidType |-> "str", rows |-> <<>>]

\* ------------------------------------------------------- pure operations
\* pl.col("Status") == "live", as filter keeps a row: a null status compares
\* to null, which filter drops.
IsLive(r) == r.Status # Null /\ r.Status = <<"live">>

DropStatus(r) ==
    [Run |-> r.Run, Experiment |-> r.Experiment, Sample |-> r.Sample,
     Study |-> r.Study, BioSample |-> r.BioSample, Spots |-> r.Spots,
     Bases |-> r.Bases]

\* Faulty variant of FilterLive: the status filter is left out.
RECURSIVE FilterAll(_)
FilterAll(rows) ==
    IF rows = <<>> THEN <<>>
    ELSE <<DropStatus(Head(rows))>> \o FilterAll(Tail(rows))

RECURSIVE FilterLive(_)
FilterLive(rows) ==
    IF rows = <<>> THEN <<>>
    ELSE (IF IsLive(Head(rows)) THEN <<DropStatus(Head(rows))>> ELSE <<>>)
         \o FilterLive(Tail(rows))

\* str.split(";")
RECURSIVE StrSplit(_)
StrSplit(s) ==
    IF \A k \in 1..Len(s) : s[k] # ";" THEN <<s>>
    ELSE LET p == CHOOSE k \in 1..Len(s) :
                      s[k] = ";" /\ \A j \in 1..(k - 1) : s[j] # ";"
         IN  <<SubSeq(s, 1, p - 1)>> \o StrSplit(SubSeq(s, p + 1, Len(s)))

\* with_columns(str.split) then explode: one row per list element, one row
\* with a null element for a null list.
RECURSIVE Explode(_)
Explode(rows) ==
    IF rows = <<>> THEN <<>>
    ELSE LET r == Head(rows)
             parts == IF r.ncbi_accession = Null THEN <<Null>>
                      ELSE StrSplit(r.ncbi_accession)
         IN  [k \in 1..Len(parts) |->
                 [sample_id |-> r.sample_id, ncbi_accession |-> parts[k]]]
             \o Explode(Tail(rows))

RECURSIVE MatchRun(_, _)
MatchRun(key, ref) ==
    IF ref = <<>> THEN <<>>
    ELSE (IF key # Null /\ Head(ref).Run # Null /\ Head(ref).Run = key
          THEN <<Head(ref)>> ELSE <<>>) \o MatchRun(key, Tail(ref))

RECURSIVE MatchBioSample(_, _)
MatchBioSample(key, ref) ==
    IF ref = <<>> THEN <<>>
    ELSE (IF key # Null /\ Head(ref).BioSample # Null /\ Head(ref).BioSample = key
          THEN <<Head(ref)>> ELSE <<>>) \o MatchBioSample(key, Tail(ref))

NullRun ==
    [Run |-> Null, Experiment |-> Null, Sample |-> Null, Study |-> Null,
     BioSample |-> Null, Spots |-> NullInt, Bases |-> NullInt]

Joined(l, m) ==
    [sample_id |-> l.sample_id, ncbi_accession |-> l.ncbi_accession,
     Spots |-> m.Spots, Bases |-> m.Bases, BioSample |-> m.BioSample,
     Experiment |-> m.Experiment, Sample |-> m.Sample, Study |-> m.Study]

\* join(df1, right_on="Run", left_on="ncbi_accession", how="left")
RECURSIVE JoinOnRun(_, _)
JoinOnRun(left, ref) ==
    IF left = <<>> THEN <<>>
    ELSE LET l == Head(left)
             ms == MatchRun(l.ncbi_accession, ref)
         IN  (IF ms = <<>> THEN <<Joined(l, NullRun)>>
              ELSE [k \in 1..Len(ms) |-> Joined(l, ms[k])])
             \o JoinOnRun(Tail(left), ref)

\* join(df1, right_on="BioSample", left_on="sample_id", how="left")
RECURSIVE JoinOnBioSample(_, _)
JoinOnBioSample(left, ref) ==
    IF left = <<>> THEN <<>>
    ELSE LET l == Head(left)
             ms == MatchBioSample(l.sample_id, ref)
         IN  (IF ms = <<>> THEN <<Joined(l, NullRun)>>
              ELSE [k \in 1..Len(ms) |-> Joined(l, ms[k])])
             \o JoinOnBioSample(Tail(left), ref)

\* The rows of one group of group_by("sample_id"), in their order.
RECURSIVE Group(_, _)
Group(rows, sid) ==
    IF rows = <<>> THEN <<>>
    ELSE (IF Head(rows).sample_id = sid THEN <<Head(rows)>> ELSE <<>>)
         \o Group(Tail(rows), sid)

\* sum() of a nullable integer column: nulls are skipped, no value gives 0.
RECURSIVE SumCol(_)
SumCol(vals) ==
    IF vals = <<>> THEN 0
    ELSE (IF Head(vals) = NullInt THEN 0 ELSE Head(vals)[1]) + SumCol(Tail(vals))

\* first(): the value of the group's first row, null or not.
First(vals) == vals[1]

\* drop_nulls().first(), which the code does not call.
RECURSIVE FirstNonNull(_)
FirstNonNull(vals) ==
    IF vals = <<>> THEN Null
    ELSE IF Head(vals) # Null THEN Head(vals) ELSE FirstNonNull(Tail(vals))

Col(g, c) == [k \in 1..Len(g) |-> g[k][c]]

\* The accessions of the group's rows that a reference row matched.
RECURSIVE MatchedOnly(_)
MatchedOnly(g) ==
    IF g = <<>> THEN <<>>
    ELSE (IF Head(g).Experiment # Null \/ Head(g).Bases # NullInt
          THEN <<Head(g).ncbi_accession>> ELSE <<>>) \o MatchedOnly(Tail(g))

\* Faulty variant of Accessions: unmatched accessions are dropped.
AccessionsMatched(g) == MatchedOnly(g)

\* agg(pl.col("ncbi_accession")): every element of the group.
Accessions(g) == Col(g, "ncbi_accession")

Unmatched(sid) ==
    [sample_id |-> sid, matched |-> FALSE, ncbi_accession |-> <<>>,
     spots |-> NullInt, bases |-> NullInt, biosample |-> Null,
     sra_experiment |-> Null, sra_sample |-> Null, sra_study |-> Null]

\* Faulty variant of AggA: identifiers are the first non-null of the group.
AggAFirstNonNull(g) ==
    [sample_id |-> g[1].sample_id, matched |-> TRUE,
     ncbi_accession |-> Accessions(g),
     spots |-> <<SumCol(Col(g, "Spots"))>>,
     bases |-> <<SumCol(Col(g, "Bases"))>>,
     biosample |-> FirstNonNull(Col(g, "BioSample")),
     sra_experiment |-> FirstNonNull(Col(g, "Experiment")),
     sra_sample |-> FirstNonNull(Col(g, "Sample")),
     sra_study |-> FirstNonNull(Col(g, "Study"))]

\* The agg(...) of Scheme A over one group.
AggA(g) ==
    [sample_id |-> g[1].sample_id, matched |-> TRUE,
     ncbi_accession |-> Accessions(g),
     spots |-> <<SumCol(Col(g, "Spots"))>>,
     bases |-> <<SumCol(Col(g, "Bases"))>>,
     biosample |-> First(Col(g, "BioSample")),
     sra_experiment |-> First(Col(g, "Experiment")),
     sra_sample |-> First(Col(g, "Sample")),
     sra_study |-> First(Col(g, "Study"))]

\* The agg(...) of Scheme B over one group (no accession list is kept).
AggB(g) ==
    [sample_id |-> g[1].sample_id, matched |-> TRUE,
     ncbi_accession |-> <<>>,
     spots |-> <<SumCol(Col(g, "Spots"))>>,
     bases |-> <<SumCol(Col(g, "Bases"))>>,
     biosample |-> First(Col(g, "sample_id")),
     sra_experiment |-> First(Col(g, "Experiment")),
     sra_sample |-> First(Col(g, "Sample")),
     sra_study |-> First(Col(g, "Study"))]

\* Faulty variant of RightJoinA: how="inner", which drops unmatched rows.
RECURSIVE InnerJoinA(_, _)
InnerJoinA(joined, rows) ==
    IF rows = <<>> THEN <<>>
    ELSE (IF Head(rows).sample_id = Null THEN <<>>
          ELSE <<AggA(Group(joined, Head(rows).sample_id))>>)
         \o InnerJoinA(joined, Tail(rows))

\* group_by("sample_id").agg(...).join(df, on="sample_id", how="right"):
\* every row of df, in df's order, with the aggregate of its sample_id; a
\* null sample_id is a group of group_by but no join key, so its row gets
\* nulls.
RightJoinA(joined, rows) ==
    [k \in 1..Len(rows) |->
        IF rows[k].sample_id = Null THEN Unmatched(Null)
        ELSE AggA(Group(joined, rows[k].sample_id))]

RightJoinB(joined, rows) ==
    [k \in 1..Len(rows) |->
        IF rows[k].sample_id = Null THEN Unmatched(Null)
        ELSE AggB(Group(joined, rows[k].sample_id))]

SchemeA(d, ref) == RightJoinA(JoinOnRun(Explode(d.rows), ref), d.rows)

SchemeB(d, ref) == RightJoinB(JoinOnBioSample(d.rows, ref), d.rows)

\* str.startswith
StartsWith(s, p) == Len(s) >= Len(p) /\ SubSeq(s, 1, Len(p)) = p

\* Faulty variant of Enriched: a table of neither scheme is passed through.
EnrichedPassThrough(d, ref) ==
    IF "ncbi_accession" \in d.cols
    THEN IF "sample_id" \in d.cols
         THEN [err |-> "none", df2 |-> SchemeA(d, ref)]
         ELSE [err |-> "ColumnNotFoundError", df2 |-> <<>>]
    ELSE IF "sample_id" \in d.cols
    THEN IF Len(d.rows) < 2
         THEN [err |-> "IndexError", df2 |-> <<>>]
         ELSE IF d.sidType # "str" \/ d.rows[2].sample_id = Null
         THEN [err |-> "AttributeError", df2 |-> <<>>]
         ELSE IF StartsWith(d.rows[2].sample_id, <<"S", "A", "M">>)
         THEN [err |-> "none", df2 |-> SchemeB(d, ref)]
         ELSE [err |-> "none", df2 |-> [k \in 1..Len(d.rows) |-> Unmatched(d.rows[k].sample_id)]]
    ELSE [err |-> "none", df2 |-> [k \in 1..Len(d.rows) |-> Unmatched(d.rows[k].sample_id)]]

\* Lines 56-89: the table df2 holds when write_ndjson is reached, or the
\* exception raised before that.  df.item(1, "sample_id") raises on a table
\* of fewer than two rows, and .startswith raises on a null or an integer.
Enriched(d, ref) ==
    IF "ncbi_accession" \in d.cols
    THEN IF "sample_id" \in d.cols
         THEN [err |-> "none", df2 |-> SchemeA(d, ref)]
         ELSE [err |-> "ColumnNotFoundError", df2 |-> <<>>]
    ELSE IF "sample_id" \in d.cols
    THEN IF Len(d.rows) < 2
         THEN [err |-> "IndexError", df2 |-> <<>>]
         ELSE IF d.sidType # "str" \/ d.rows[2].sample_id = Null
         THEN [err |-> "AttributeError", df2 |-> <<>>]
         ELSE IF StartsWith(d.rows[2].sample_id, <<"S", "A", "M">>)
         THEN [err |-> "none", df2 |-> SchemeB(d, ref)]
         ELSE [err |-> "none", df2 |-> <<>>]
    ELSE [err |-> "none", df2 |-> <<>>]

\* ------------------------------------------------------------------ state
VARIABLES
    pc,        \* position of the process
    caller,    \* who called download_sra_run_members: "main" or "direct"
    replace,   \* the replace argument of that call
    cache,     \* the file SRA_Run_Members.tsv.gz
    existed,   \* history: the cache file existed when line 7 was reached
    df1,       \* main's reference table
    i,         \* number of files the glob has yielded
    df,        \* the curated table of file i
    df2,       \* the enriched table of file i
    written,   \* the files whose .ndjson this run wrote
    err,       \* the exception that ended the process
    log        \* what was done to which file, in order

vars == <<pc, caller, replace, cache, existed, df1, i, df, df2, written, err, log>>

NoFile == [exists |-> FALSE, sep |-> "\t", rows |-> <<>>]

\* The cache file at start: absent, a tab-separated copy of the report, or
\* what an earlier download left.
Init ==
    /\ pc = "start"
    /\ caller = "main"
    /\ replace = FALSE
    /\ cache \in {NoFile}
            \cup {[exists |-> TRUE, sep |-> sp, rows |-> t] :
                     sp \in {"\t", ","}, t \in RunTables}
    /\ existed = FALSE
    /\ df1 = <<>>
    /\ i = 0
    /\ df = NoTable
    /\ df2 = <<>>
    /\ written = {}
    /\ err = "none"
    /\ log = <<>>

\* ---------------------------------------------------------------- actions
\* download_sra_run_members(replace) called on its own (line 5).
CallDownload ==
    /\ pc = "start"
    /\ \E r \in BOOLEAN : replace' = r
    /\ caller' = "direct"
    /\ pc' = "dl"
    /\ UNCHANGED <<cache, existed, df1, i, df, df2, written, err, log>>

\* main() is run; line 96 calls download_sra_run_members(replace=False).
CallMain ==
    /\ pc = "start"
    /\ replace' = FALSE
    /\ caller' = "main"
    /\ pc' = "dl"
    /\ UNCHANGED <<cache, existed, df1, i, df, df2, written, err, log>>

\* Faulty variant of DownloadCheck: the test of line 7 is left out.
DownloadCheckAlways ==
    /\ pc = "dl"
    /\ cache' = NoFile
    /\ pc' = "fetch"
    /\ existed' = cache.exists
    /\ UNCHANGED <<caller, replace, df1, i, df, df2, written, err, log>>

\* Faulty variant of DownloadCheck: the unlink of line 8 is left out.
DownloadCheckKeep ==
    /\ pc = "dl"
    /\ IF replace \/ ~cache.exists
       THEN /\ cache' = cache
            /\ pc' = "fetch"
       ELSE /\ cache' = cache
            /\ pc' = "dl_ret"
    /\ existed' = cache.exists
    /\ UNCHANGED <<caller, replace, df1, i, df, df2, written, err, log>>

\* Lines 7-8: the test, and the unlink that precedes the fetch.
DownloadCheck ==
    /\ pc = "dl"
    /\ IF replace \/ ~cache.exists
       THEN /\ cache' = NoFile
            /\ pc' = "fetch"
       ELSE /\ cache' = cache
            /\ pc' = "dl_ret"
    /\ existed' = cache.exists
    /\ UNCHANGED <<caller, replace, df1, i, df, df2, written, err, log>>

\* Lines 9-15: read_csv of the report succeeds; write_csv writes it with its
\* default separator, the comma.
FetchOk ==
    /\ pc = "fetch"
    /\ \E t \in RunTables : cache' = [exists |-> TRUE, sep |-> ",", rows |-> t]
    /\ pc' = "dl_ret"
    /\ UNCHANGED <<caller, replace, existed, df1, i, df, df2, written, err, log>>

\* Lines 9-15: the fetch or the parse raises; nothing is written.
FetchFail ==
    /\ pc = "fetch"
    /\ err' = "FetchError"
    /\ pc' = "crashed"
    /\ UNCHANGED <<caller, replace, cache, existed, df1, i, df, df2, written, log>>

\* download_sra_run_members returns to its caller.
DownloadReturn ==
    /\ pc = "dl_ret"
    /\ pc' = IF caller = "main" THEN "load" ELSE "start"
    /\ UNCHANGED <<caller, replace, cache, existed, df1, i, df, df2, written, err, log>>

\* Line 97, load_sra_run_members: the cache is read with separator "\t"; a
\* file written with commas is read as one column, and pl.col("Spots") is
\* not found.
LoadRef ==
    /\ pc = "load"
    /\ IF cache.sep = "\t"
       THEN /\ df1' = FilterLive(cache.rows)
            /\ pc' = "loop"
            /\ err' = err
       ELSE /\ df1' = df1
            /\ pc' = "crashed"
            /\ err' = "ColumnNotFoundError"
    /\ UNCHANGED <<caller, replace, cache, existed, i, df, df2, written, log>>

\* Lines 99-101: the glob yields another file and load_curated_data reads it.
NextFile ==
    /\ pc = "loop"
    /\ i < MaxFiles
    /\ i' = i + 1
    /\ \E t \in CuratedTables : df' = t
    /\ df2' = <<>>
    /\ log' = Append(log, <<"load", i + 1>>)
    /\ pc' = "enrich"
    /\ UNCHANGED <<caller, replace, cache, existed, df1, written, err>>

\* Lines 99-101: the glob yields another file and read_csv raises on it.
LoadFail ==
    /\ pc = "loop"
    /\ i < MaxFiles
    /\ i' = i + 1
    /\ err' = "ComputeError"
    /\ pc' = "crashed"
    /\ UNCHANGED <<caller, replace, cache, existed, df1, df, df2, written, log>>

\* Line 99: the glob is exhausted; main returns.
Exhausted ==
    /\ pc = "loop"
    /\ pc' = "done"
    /\ UNCHANGED <<caller, replace, cache, existed, df1, i, df, df2, written, err, log>>

\* Lines 56-90 of add_study_and_sample_info: df2 is built and written.
Enrich ==
    /\ pc = "enrich"
    /\ LET e == Enriched(df, df1)
       IN  IF e.err = "none"
           THEN /\ df2' = e.df2
                /\ written' = written \cup {i}
                /\ log' = Append(Append(log, <<"enrich", i>>), <<"write", i>>)
                /\ pc' = "check"
                /\ err' = err
           ELSE /\ err' = e.err
                /\ pc' = "crashed"
                /\ UNCHANGED <<df2, written, log>>
    /\ UNCHANGED <<caller, replace, cache, existed, df1, i, df>>

\* Faulty variant of RowCountCheck: a mismatch is recorded and the loop goes on.
RowCountLogged ==
    /\ pc = "check"
    /\ log' = Append(log, <<"check", i>>)
    /\ pc' = "loop"
    /\ df' = NoTable
    /\ df2' = <<>>
    /\ err' = IF Len(df2) = Len(df.rows) THEN err ELSE "AssertionError"
    /\ UNCHANGED <<caller, replace, cache, existed, df1, i, written>>

\* Line 91: assert df2.shape[0] == df.shape[0]; on success the call returns
\* and its tables are dropped.
RowCountCheck ==
    /\ pc = "check"
    /\ log' = Append(log, <<"check", i>>)
    /\ IF Len(df2) = Len(df.rows)
       THEN /\ pc' = "loop"
            /\ df' = NoTable
            /\ df2' = <<>>
            /\ err' = err
       ELSE /\ pc' = "crashed"
            /\ err' = "AssertionError"
            /\ UNCHANGED <<df, df2>>
    /\ UNCHANGED <<caller, replace, cache, existed, df1, i, written>>

Next ==
    \/ CallDownload
    \/ CallMain
    \/ DownloadCheck
    \/ FetchOk
    \/ FetchFail
    \/ DownloadReturn
    \/ LoadRef
    \/ NextFile
    \/ LoadFail
    \/ Exhausted
    \/ Enrich
    \/ RowCountCheck

Spec == Init /\ [][Next]_vars

TypeOK ==
    /\ pc \in {"start", "dl", "fetch", "dl_ret", "load", "loop", "enrich",
               "check", "done", "crashed"}
    /\ i \in 0..MaxFiles
    /\ written \subseteq 1..MaxFiles

\* ----------------------------------------------------------------- claims
HasAccession(d) == "ncbi_accession" \in d.cols

HasSampleId(d) == "sample_id" \in d.cols

\* No ncbi_accession column, a sample_id column, and the sample_id at row
\* index 1 starts with "SAM".
IsSchemeB(d) ==
    /\ ~HasAccession(d)
    /\ HasSampleId(d)
    /\ Len(d.rows) >= 2
    /\ d.sidType = "str"
    /\ d.rows[2].sample_id # Null
    /\ StartsWith(d.rows[2].sample_id, <<"S", "A", "M">>)

NeitherScheme(d) == ~HasAccession(d) /\ ~IsSchemeB(d)

NumMatches(p, ref) ==
    Cardinality({k \in 1..Len(ref) : p # Null /\ ref[k].Run # Null /\ ref[k].Run = p})

Pieces(acc) == IF acc = Null THEN <<Null>> ELSE StrSplit(acc)

RunsNamed(acc) ==
    IF acc = Null THEN {} ELSE {StrSplit(acc)[k] : k \in 1..Len(StrSplit(acc))}

RECURSIVE SpotsOfRuns(_, _)
SpotsOfRuns(runs, ref) ==
    IF ref = <<>> THEN 0
    ELSE (IF Head(ref).Run \in runs /\ Head(ref).Spots # NullInt
          THEN Head(ref).Spots[1] ELSE 0) + SpotsOfRuns(runs, Tail(ref))

\* C2: under Scheme A the spots of each output row is the sum of Spots over
\* the reference rows whose Run appears in that row's accession list, and
\* is never null.
C2_SpotsSumOverListedRuns ==
    (pc = "check" /\ HasAccession(df)) =>
        \A k \in 1..Len(df2) :
            df2[k].spots = <<SpotsOfRuns(RunsNamed(df.rows[k].ncbi_accession), df1)>>

\* C3 as claimed: every table of neither scheme reaches the row-count check
\* and fails it.
C3_AlwaysAssertionError ==
    [][ /\ (pc = "enrich" /\ NeitherScheme(df)) => pc' = "check"
        /\ (pc = "check" /\ NeitherScheme(df)) => err' = "AssertionError" ]_vars

\* The tables of neither scheme on which lines 75 and 91 raise nothing
\* before the comparison and the comparison is of 0 with a positive count.
ReachesFailingCheck(d) ==
    /\ ~HasAccession(d)
    /\ \/ ~HasSampleId(d) /\ Len(d.rows) >= 1
       \/ /\ HasSampleId(d)
          /\ Len(d.rows) >= 2
          /\ d.sidType = "str"
          /\ d.rows[2].sample_id # Null
          /\ ~StartsWith(d.rows[2].sample_id, <<"S", "A", "M">>)

\* C3 (amended): a table of neither scheme ends with the row-count assertion
\* failing exactly when it has no sample_id column and at least one row, or
\* has a sample_id column, at least two rows and a non-null string not
\* starting with "SAM" at row index 1; with no sample_id column and no row
\* the call returns normally, with a sample_id column and fewer than two rows
\* it ends with IndexError, and with a null or non-string sample_id at row
\* index 1 it ends with AttributeError.
C3_AssertionErrorWhenReached ==
    [][ /\ (pc = "enrich" /\ ReachesFailingCheck(df)) =>
               (pc' = "check" /\ df2' = <<>> /\ i \in written')
        /\ (pc = "check" /\ ReachesFailingCheck(df)) =>
               (pc' = "crashed" /\ err' = "AssertionError")
        /\ (pc = "enrich" /\ NeitherScheme(df) /\ ~HasSampleId(df) /\ df.rows = <<>>) =>
               pc' = "check"
        /\ (pc = "check" /\ NeitherScheme(df) /\ ~HasSampleId(df) /\ df.rows = <<>>) =>
               (pc' = "loop" /\ err' = "none")
        /\ (pc = "enrich" /\ NeitherScheme(df) /\ HasSampleId(df) /\ Len(df.rows) < 2) =>
               (pc' = "crashed" /\ err' = "IndexError")
        /\ (pc = "enrich" /\ NeitherScheme(df) /\ HasSampleId(df) /\ Len(df.rows) >= 2
              /\ (df.sidType # "str" \/ df.rows[2].sample_id = Null)) =>
               (pc' = "crashed" /\ err' = "AttributeError") ]_vars

\* A table with a sample_id column whose row index 1 is not SAM-prefixed
\* ended with the assertion failing.
C3_Witness ==
    /\ pc = "crashed"
    /\ err = "AssertionError"
    /\ ~HasAccession(df)
    /\ HasSampleId(df)
    /\ ReachesFailingCheck(df)

Position(ev, f) == CHOOSE k \in 1..Len(log) : log[k] = <<ev, f>>

Logged(ev, f) == \E k \in 1..Len(log) : log[k] = <<ev, f>>

\* C4: the .ndjson of a file is written only after its row-count check, and
\* a file whose check fails has no output written by the run.
C4_CheckBeforeWrite ==
    /\ \A f \in written :
           Logged("check", f) /\ Position("check", f) < Position("write", f)
    /\ err = "AssertionError" => i \notin written

\* C5: a fetch starts only if the cache file is absent or replace is True;
\* main passes replace=False; with the file present and replace False the
\* call returns without fetching and leaves the file as it is; whenever the
\* call returns, the file exists.
C5_FetchOnlyIfAbsentOrReplace ==
    [][ /\ (pc # "fetch" /\ pc' = "fetch") => (replace \/ ~cache.exists)
        /\ (pc = "dl" /\ caller = "main") => ~replace
        /\ (pc = "dl" /\ cache.exists /\ ~replace) =>
               (pc' = "dl_ret" /\ cache' = cache)
        /\ pc' = "dl_ret" => cache'.exists ]_vars

\* main's call returned on a tab-separated cache file, which only the
\* initial state provides: nothing was fetched.
C5_Witness ==
    /\ pc = "dl_ret"
    /\ caller = "main"
    /\ ~replace
    /\ existed
    /\ cache.exists
    /\ cache.sep = "\t"
    /\ cache.rows # <<>>

Events(f) == {k \in 1..Len(log) : log[k][2] = f}

\* The log is load, enrich, write, check of file 1, then of file 2, ...:
\* entry k belongs to file (k-1) \div 4 + 1.
InFileOrder ==
    \A k \in 1..Len(log) :
        log[k] = << <<"load", "enrich", "write", "check">>[((k - 1) % 4) + 1],
                    ((k - 1) \div 4) + 1 >>

\* C6: files are processed one after another, each loaded, enriched, written
\* and checked before the next is loaded; after a failure nothing more is
\* loaded, enriched or written; a run that ends normally has processed every
\* file the glob yielded exactly once.
C6_SequentialFailFast ==
    /\ [](/\ InFileOrder
          /\ written \subseteq 1..i
          /\ pc = "done" => /\ err = "none"
                            /\ Len(log) = 4 * i
                            /\ written = 1..i
                            /\ \A f \in 1..i : Cardinality(Events(f)) = 4)
    /\ [][err # "none" => (log' = log /\ written' = written /\ i' = i /\ pc' = pc)]_vars

\* The first file passed, the second failed its row-count check, and the run
\* stopped there.
C6_Witness ==
    /\ pc = "crashed"
    /\ err = "AssertionError"
    /\ i >= 2
    /\ Logged("check", 1)
    /\ Logged("check", i)

LiveIndexes == {k \in 1..Len(cache.rows) : cache.rows[k].Status = <<"live">>}

NthLive(j) ==
    CHOOSE k \in LiveIndexes : Cardinality({m \in LiveIndexes : m <= k}) = j

LiveRowsOfCache ==
    [j \in 1..Cardinality(LiveIndexes) |-> DropStatus(cache.rows[NthLive(j)])]

Loaded == pc \in {"loop", "enrich", "check", "done"} \/ (pc = "crashed" /\ i > 0)

ScenarioOneCache ==
    /\ Len(cache.rows) = 2
    /\ cache.rows[1].Run = <<"R1">> /\ cache.rows[1].Status = <<"live">>
    /\ cache.rows[2].Run = <<"R2">> /\ cache.rows[2].Status = <<"dead">>

ScenarioOneTable ==
    /\ HasAccession(df) /\ HasSampleId(df)
    /\ Len(df.rows) = 1
    /\ df.rows[1].ncbi_accession = <<"R1", ";", "R2">>

\* C7: the reference table main holds is exactly the cached rows whose
\* Status is "live", in order; every enriched table is the one computed from
\* those rows alone; with live R1 (100 spots, 1000 bases) and dead R2 the
\* list "R1;R2" aggregates to spots 100 and bases 1000.
C7_OnlyLiveRunsContribute ==
    /\ Loaded => df1 = LiveRowsOfCache
    /\ pc = "check" => df2 = Enriched(df, LiveRowsOfCache).df2
    /\ (pc = "check" /\ ScenarioOneCache /\ ScenarioOneTable) =>
           (df2[1].spots = <<100>> /\ df2[1].bases = <<1000>>)

C7_Witness ==
    /\ pc = "check"
    /\ ScenarioOneCache
    /\ ScenarioOneTable
    /\ df2[1].spots = <<100>>

Fields == {"biosample", "sra_experiment", "sra_sample", "sra_study"}

RefField(f) ==
    CASE f = "biosample" -> "BioSample"
      [] f = "sra_experiment" -> "Experiment"
      [] f = "sra_sample" -> "Sample"
      [] f = "sra_study" -> "Study"

\* C8 as claimed: an identifier is non-null whenever some accession of the
\* row matches a reference row in which it is non-null.
C8_FirstNonNull ==
    (pc = "check" /\ HasAccession(df)) =>
        \A k \in 1..Len(df2) : \A f \in Fields :
            (\E p \in RunsNamed(df.rows[k].ncbi_accession) : \E m \in 1..Len(df1) :
                 df1[m].Run = p /\ df1[m][RefField(f)] # Null)
            => df2[k][f] # Null

FirstRowWith(sid) ==
    df.rows[CHOOSE j \in 1..Len(df.rows) :
                /\ df.rows[j].sample_id = sid
                /\ \A m \in 1..(j - 1) : df.rows[m].sample_id # sid]

FirstMatch(p) ==
    IF NumMatches(p, df1) = 0 THEN NullRun
    ELSE df1[CHOOSE m \in 1..Len(df1) :
                 /\ df1[m].Run = p
                 /\ \A n \in 1..(m - 1) : df1[n].Run # p]

\* C8 (amended): under Scheme A the identifiers of an output row with a
\* non-null sample_id are those, null or not, of the first row of its group:
\* of the first reference row matching the first accession of the first
\* curated row that carries the sample_id, and null if that accession matches
\* no reference row; a row with a null sample_id gets null identifiers.
C8_FirstOfGroup ==
    (pc = "check" /\ HasAccession(df)) =>
        \A k \in 1..Len(df2) : \A f \in Fields :
            df2[k][f] =
                IF df.rows[k].sample_id = Null THEN Null
                ELSE FirstMatch(Pieces(FirstRowWith(df.rows[k].sample_id).ncbi_accession)[1])[RefField(f)]

\* "R3;R1" with R3 unknown and R1 known: the biosample is null.
C8_Witness ==
    /\ pc = "check"
    /\ HasAccession(df)
    /\ Len(df.rows) = 1
    /\ df.rows[1].ncbi_accession = <<"R3", ";", "R1">>
    /\ NumMatches(<<"R3">>, df1) = 0
    /\ \E m \in 1..Len(df1) : df1[m].Run = <<"R1">> /\ df1[m].BioSample # Null
    /\ df2[1].matched
    /\ df2[1].biosample = Null

\* C9 as claimed: every accession in an output row's list has a row in the
\* reference table.
C9_OnlyMatchedAccessions ==
    (pc = "check" /\ HasAccession(df)) =>
        \A k \in 1..Len(df2) : \A n \in 1..Len(df2[k].ncbi_accession) :
            NumMatches(df2[k].ncbi_accession[n], df1) > 0

Repeat(p, n) == [k \in 1..n |-> p]

RECURSIVE PerMatch(_)
PerMatch(parts) ==
    IF parts = <<>> THEN <<>>
    ELSE Repeat(Head(parts),
                IF NumMatches(Head(parts), df1) = 0 THEN 1
                ELSE NumMatches(Head(parts), df1))
         \o PerMatch(Tail(parts))

RECURSIVE AllAccessionsOf(_, _)
AllAccessionsOf(sid, rows) ==
    IF rows = <<>> THEN <<>>
    ELSE (IF Head(rows).sample_id = sid
          THEN PerMatch(Pieces(Head(rows).ncbi_accession)) ELSE <<>>)
         \o AllAccessionsOf(sid, Tail(rows))

\* C9 (amended): under Scheme A the list of an output row with a non-null
\* sample_id holds every accession of every curated row that carries the
\* sample_id, matched or not, in order: once per reference row it matches,
\* once if it matches none, and one null for a null accession list; a row
\* with a null sample_id has a null list.
C9_AllAccessions ==
    (pc = "check" /\ HasAccession(df)) =>
        \A k \in 1..Len(df2) :
            IF df.rows[k].sample_id = Null
            THEN ~df2[k].matched /\ df2[k].ncbi_accession = <<>>
            ELSE /\ df2[k].matched
                 /\ df2[k].ncbi_accession =
                        AllAccessionsOf(df.rows[k].sample_id, df.rows)

\* An accession with no reference row is in the output list.
C9_Witness ==
    /\ pc = "check"
    /\ HasAccession(df)
    /\ \E k \in 1..Len(df2) : \E n \in 1..Len(df2[k].ncbi_accession) :
           /\ df2[k].ncbi_accession[n] # Null
           /\ NumMatches(df2[k].ncbi_accession[n], df1) = 0

\* C10: the cache file is gone before the fetch starts, so a call with
\* replace=True on an existing file whose fetch fails leaves no cache file.
C10_FailedRefreshLosesCache ==
    /\ pc = "fetch" => ~cache.exists
    /\ (err = "FetchError" /\ replace /\ existed) => (pc = "crashed" /\ ~cache.exists)

C10_Witness ==
    /\ err = "FetchError"
    /\ pc = "crashed"
    /\ replace
    /\ existed
    /\ ~cache.exists

====
